---- MODULE Spec2Model ----
(***************************************************************************)
(* Authenticated API request pipeline of the Bingo ledger frontend:        *)
(* the credential store (localStorage / sessionStorage), the request       *)
(* pipeline with its refresh-and-retry protocol (utils/api.ts) and the     *)
(* session facade AuthService (utils/auth.ts).                             *)
(*                                                                         *)
(* Execution is single-threaded and cooperative: an operation runs         *)
(* atomically from one await of a network promise (fetch, response.json,   *)
(* response.text) to the next.  Every action below is one such run.        *)
(***************************************************************************)
EXTENDS Integers, Sequences, FiniteSets, Bags, TLC

\* ------------------------------------------------------------------ bounds
\* Number of operations that may be in flight at the same time.
NumProcs == 2

\* ------------------------------------------------------------------ values
\* JavaScript null / undefined (Storage.getItem of an absent key).
None == "null"

\* JavaScript truthiness of a string-or-null value: null and "" are falsy.
Truthy(v) == v /= None /\ v /= ""

ACCESS_TOKEN_KEY == "access_token"
REFRESH_TOKEN_KEY == "refresh_token"
USER_KEY == "user"

Keys == {ACCESS_TOKEN_KEY, REFRESH_TOKEN_KEY, USER_KEY}

StorageType == {"local", "session"}

\* Token strings a server may put in a response body (opaque to the client).
AccessTokens == {"a1", "a2"}
RefreshTokens == {"r1", "r2"}

\* User records a server may return.
Users == {"u1", "u2"}

\* What JSON.parse throws on a text that is not JSON; the operators below
\* yield it in place of a value when the code they model throws it.
SyntaxError == "SyntaxError"

\* A stored text that is not JSON.
Malformed == "{id:"

\* JSON.stringify of a user record, and JSON.parse of a stored snapshot.
JSONstringify(u) == IF u = "u1" THEN "{id:1}" ELSE "{id:2}"

JSONparse(s) ==
    IF s = "{id:1}" THEN "u1"
    ELSE IF s = "{id:2}" THEN "u2"
    ELSE SyntaxError

\* The refresh endpoint, and the endpoints the facade and the pages call.
RefreshPath == "/auth/refresh"

\* HTTP statuses a server may answer with; 0 stands for a rejected fetch
\* (transport failure), which has no response at all.
Statuses == {200, 204, 401, 500}

\* What the body of a 2xx refresh response may carry as access_token:
\* a token, nothing (undefined), or an empty string.
RefreshPayloads == AccessTokens \cup {None, ""}

NetworkError == 0

\* The value of a response variable before its fetch has resolved.
NoResponse == -1

IsOk(status) == status >= 200 /\ status <= 299

\* Texts whose content matters (messages, status texts, field names) are
\* sequences of characters.
RECURSIVE Join(_, _)
\* Array.prototype.join: the items with the separator between them.
Join(items, separator) ==
    IF Len(items) = 0 THEN <<>>
    ELSE IF Len(items) = 1 THEN items[1]
    ELSE items[1] \o separator \o Join(Tail(items), separator)

\* JavaScript values of the fields of an error body.
JsUndefined == [type |-> "undefined", text |-> <<>>, items |-> <<>>]
JsNumber == [type |-> "number", text |-> <<>>, items |-> <<>>]
JsString(text) == [type |-> "string", text |-> text, items |-> <<>>]
JsArray(items) == [type |-> "array", text |-> <<>>, items |-> items]

\* What response.json() of a non-2xx response may give: it rejects (the
\* body is not JSON), it gives null, or it gives an object whose fields
\* error, message and required are absent or of any type.
ErrorPayloads ==
    {[parsed |-> p, error |-> JsUndefined, message |-> JsUndefined,
      required |-> JsUndefined] : p \in {"unparsable", "null"}}
    \cup
    {[parsed |-> "object", error |-> e, message |-> m, required |-> r] :
        e \in {JsUndefined, JsNumber, JsString(<<>>), JsString(<<"e">>)},
        m \in {JsUndefined, JsNumber, JsString(<<>>), JsString(<<"m">>)},
        r \in {JsUndefined, JsArray(<<>>), JsArray(<<(<<"f">>)>>),
               JsArray(<<(<<"f">>), (<<"g">>)>>)}}

\* response.statusText: empty over HTTP/2.
StatusTexts == {<<>>, <<"S">>}

\* An error body with an error field, as the backend sends it.
UsualErrorPayload ==
    [parsed |-> "object", error |-> JsString(<<"e">>), message |-> JsUndefined,
     required |-> JsUndefined]

\* The content-type header of a 2xx response (None: no such header) and the
\* text of its body.
ContentTypes ==
    {"application/json", "application/json; charset=utf-8", "text/plain", None}

BodyTexts == {"{id:1}", "{id:2}", Malformed}

\* contentType?.includes("application/json") (api.ts 173).
IsJson(contentType) ==
    contentType \in {"application/json", "application/json; charset=utf-8"}

\* parseErrorMessage (api.ts 80-91).
parseErrorMessage(data, fallback) ==
    LET errorText ==
            IF data.error.type = "string" /\ data.error.text /= <<>>
              THEN data.error.text
            ELSE IF data.message.type = "string" /\ data.message.text /= <<>>
              THEN data.message.text
            ELSE fallback
    IN  IF data.required.type = "array"
          THEN errorText \o <<":", " ">> \o Join(data.required.items, <<",", " ">>)
          ELSE errorText

\* ---------------------------------------------------------------- state
VARIABLES
    storage,      \* [StorageType -> [Keys -> string or None]]
    currentUser,  \* AuthService.currentUser
    pending,      \* the bag of operations in flight, each awaiting a promise
    settled       \* the operation that returned or threw in the last step

vars == <<storage, currentUser, pending, settled>>

\* ------------------------------------------------------- credential store
EmptyStorage == [t \in StorageType |-> [k \in Keys |-> None]]

setItem(st, type, key, value) == [st EXCEPT ![type][key] = value]

removeItem(st, type, key) == [st EXCEPT ![type][key] = None]

readFromStorage(st, key) ==
    IF st["local"][key] /= None THEN st["local"][key] ELSE st["session"][key]

getTokenStorageType(st) ==
    IF Truthy(st["local"][REFRESH_TOKEN_KEY]) THEN "local"
    ELSE IF Truthy(st["session"][REFRESH_TOKEN_KEY]) THEN "session"
    ELSE None

getAuthStorageType(st) == getTokenStorageType(st)

getAccessToken(st) == readFromStorage(st, ACCESS_TOKEN_KEY)

getRefreshToken(st) == readFromStorage(st, REFRESH_TOKEN_KEY)

clearOne(st, type) ==
    removeItem(removeItem(removeItem(st, type, ACCESS_TOKEN_KEY),
                          type, REFRESH_TOKEN_KEY), type, USER_KEY)

\* clearAuthStorage going through localStorage only.
clearAuthStorageLocalOnly(st) == clearOne(st, "local")

\* clearAuthStorage that leaves the user snapshot (without api.ts line 68).
clearAuthStorageKeepsUser(st) ==
    [t \in StorageType |-> [st[t] EXCEPT ![ACCESS_TOKEN_KEY] = None,
                                          ![REFRESH_TOKEN_KEY] = None]]

clearAuthStorage(st) == clearOne(clearOne(st, "local"), "session")

\* setAuthTokens with the two keys exchanged.
setAuthTokensSwapped(st, accessToken, refreshToken, rememberMe) ==
    LET type == IF rememberMe THEN "local" ELSE "session"
        s0 == clearAuthStorage(st)
        s1 == setItem(s0, type, ACCESS_TOKEN_KEY, refreshToken)
    IN  setItem(s1, type, REFRESH_TOKEN_KEY, accessToken)

\* setAuthTokens clearing the selected lifetime only.
setAuthTokensClearsSelectedOnly(st, accessToken, refreshToken, rememberMe) ==
    LET type == IF rememberMe THEN "local" ELSE "session"
        s0 == clearOne(st, type)
        s1 == setItem(s0, type, ACCESS_TOKEN_KEY, accessToken)
    IN  setItem(s1, type, REFRESH_TOKEN_KEY, refreshToken)

\* setAuthTokens without the write of the refresh token (api.ts line 49).
setAuthTokensAccessOnly(st, accessToken, refreshToken, rememberMe) ==
    LET type == IF rememberMe THEN "local" ELSE "session"
    IN  setItem(clearAuthStorage(st), type, ACCESS_TOKEN_KEY, accessToken)

\* setAuthTokens without the clearAuthStorage() of api.ts line 46.
setAuthTokensWithoutClear(st, accessToken, refreshToken, rememberMe) ==
    LET type == IF rememberMe THEN "local" ELSE "session"
        s1 == setItem(st, type, ACCESS_TOKEN_KEY, accessToken)
    IN  setItem(s1, type, REFRESH_TOKEN_KEY, refreshToken)

setAuthTokens(st, accessToken, refreshToken, rememberMe) ==
    LET type == IF rememberMe THEN "local" ELSE "session"
        s0 == clearAuthStorage(st)
        s1 == setItem(s0, type, ACCESS_TOKEN_KEY, accessToken)
    IN  setItem(s1, type, REFRESH_TOKEN_KEY, refreshToken)

\* setStoredUser without the two removeItem calls of api.ts lines 54-55.
setStoredUserWithoutRemove(st, user, rememberMe) ==
    setItem(st, IF rememberMe THEN "local" ELSE "session", USER_KEY,
            JSONstringify(user))

\* setStoredUser writing to localStorage whatever rememberMe is.
setStoredUserInLocal(st, user, rememberMe) ==
    LET s0 == removeItem(st, "local", USER_KEY)
        s1 == removeItem(s0, "session", USER_KEY)
    IN  setItem(s1, "local", USER_KEY, JSONstringify(user))

setStoredUser(st, user, rememberMe) ==
    LET type == IF rememberMe THEN "local" ELSE "session"
        s0 == removeItem(st, "local", USER_KEY)
        s1 == removeItem(s0, "session", USER_KEY)
    IN  setItem(s1, type, USER_KEY, JSONstringify(user))

getStoredUser(st) ==
    LET stored == readFromStorage(st, USER_KEY)
    IN  IF Truthy(stored) THEN JSONparse(stored) ELSE None

\* updateAccessToken writing to localStorage whatever the active lifetime.
updateAccessTokenInLocal(st, token) ==
    IF getTokenStorageType(st) = None THEN st
    ELSE setItem(st, "local", ACCESS_TOKEN_KEY, token)

\* updateAccessToken without the early return of api.ts 74-76.
updateAccessTokenAlwaysWrites(st, token) ==
    LET storageType == getTokenStorageType(st)
    IN  setItem(st, IF storageType = None THEN "session" ELSE storageType,
                ACCESS_TOKEN_KEY, token)

updateAccessToken(st, token) ==
    LET storageType == getTokenStorageType(st)
    IN  IF storageType = None THEN st
        ELSE setItem(st, storageType, ACCESS_TOKEN_KEY, token)

\* updateCurrentUser removing only the user snapshot when it is passed no
\* user while a lifetime is active.
updateCurrentUserNoneKeepsTokens(st, user) ==
    LET storageType == getAuthStorageType(st)
    IN  IF user /= None /\ storageType /= None
          THEN setStoredUser(st, user, storageType = "local")
        ELSE IF user = None /\ storageType /= None
          THEN removeItem(removeItem(st, "local", USER_KEY), "session", USER_KEY)
        ELSE IF user = None THEN clearAuthStorage(st)
        ELSE st

\* updateCurrentUser persisting the user also when no lifetime is active
\* (without the `&& storageType` of auth.ts line 81).
updateCurrentUserAlwaysPersist(st, user) ==
    IF user /= None
      THEN setStoredUser(st, user, getAuthStorageType(st) = "local")
      ELSE clearAuthStorage(st)

\* updateCurrentUser without the setStoredUser() of auth.ts line 82.
updateCurrentUserMemoryOnly(st, user) ==
    IF user = None THEN clearAuthStorage(st) ELSE st

\* ------------------------------------------------------- session facade
\* Storage effect of AuthService.updateCurrentUser(user).
updateCurrentUser(st, user) ==
    LET storageType == getAuthStorageType(st)
    IN  IF user /= None /\ storageType /= None
          THEN setStoredUser(st, user, storageType = "local")
        ELSE IF user = None THEN clearAuthStorage(st)
        ELSE st

\* getCurrentUser without the hydration of auth.ts lines 97-101.
getCurrentUserMemoryOnly(cur, st) == cur

\* Value returned by AuthService.getCurrentUser().
getCurrentUser(cur, st) == IF cur /= None THEN cur ELSE getStoredUser(st)

\* isAuthenticated without the getAccessToken() of auth.ts line 107.
isAuthenticatedUserOnly(cur, st) == getCurrentUser(cur, st) /= None

isAuthenticated(cur, st) ==
    Truthy(getAccessToken(st)) /\ getCurrentUser(cur, st) /= None

\* ------------------------------------------------------ request pipeline
\* One operation: the facade operation that started it (op), where its
\* request() stands (pc), the options of the current request() activation,
\* the response it is handling, and what it did so far (log).
NoOutcome ==
    [kind |-> "none", status |-> NoResponse, value |-> None, message |-> <<>>]

IdleCall ==
    [op |-> "none", pc |-> "idle", path |-> None, skipAuth |-> FALSE,
     retryOpt |-> TRUE, retry |-> TRUE, rememberMe |-> FALSE,
     bearer |-> None, sent |-> None, status |-> NoResponse,
     log |-> <<>>, outcome |-> NoOutcome]

\* The operation has ended: it returned or threw.
Settle(c, kind, status, value) ==
    [c EXCEPT !.pc = "done", !.bearer = None, !.sent = None,
              !.outcome = [kind |-> kind, status |-> status, value |-> value,
                           message |-> <<>>]]

\* request() throws new ApiError(message, response.status, errorData)
\* (api.ts 161-165).
SettleError(c, status, message) ==
    [c EXCEPT !.pc = "done", !.bearer = None, !.sent = None,
              !.outcome = [kind |-> "ApiError", status |-> status, value |-> None,
                           message |-> message]]

\* api.ts 135-137 attaching the stored token whatever skipAuth says.
DispatchAlwaysBearer(c, st) ==
    LET accessToken == getAccessToken(st)
    IN  [c EXCEPT !.pc = "fetch",
                  !.bearer = IF Truthy(accessToken) THEN accessToken ELSE None,
                  !.status = NoResponse,
                  !.log = Append(c.log, <<"dispatch", 0>>)]

\* request() from its first line to the await of fetch (api.ts 127-144):
\* read the access token, attach it unless skipAuth, dispatch.
Dispatch(c, st) ==
    LET accessToken == getAccessToken(st)
    IN  [c EXCEPT !.pc = "fetch",
                  !.bearer = IF ~c.skipAuth /\ Truthy(accessToken)
                             THEN accessToken ELSE None,
                  !.status = NoResponse,
                  !.log = Append(c.log, <<"dispatch", 0>>)]

\* A facade or page operation calls request(path, options).
StartCall(op, path, skipAuth, retry, rememberMe, st) ==
    Dispatch([IdleCall EXCEPT !.op = op, !.path = path, !.skipAuth = skipAuth,
                              !.retryOpt = retry, !.retry = retry,
                              !.rememberMe = rememberMe], st)

\* api.ts line 146 without its test of the retry option.
ShouldRefreshIgnoringRetry(status, retry, skipAuth, path) ==
    status = 401 /\ ~skipAuth /\ path /= RefreshPath

\* api.ts line 146 testing !response.ok in place of the status 401.
ShouldRefreshOnAnyError(status, retry, skipAuth, path) ==
    ~IsOk(status) /\ retry /\ ~skipAuth /\ path /= RefreshPath

\* api.ts line 146 without its test of skipAuth.
ShouldRefreshIgnoringSkipAuth(status, retry, skipAuth, path) ==
    status = 401 /\ retry /\ path /= RefreshPath

\* The condition of api.ts line 146.
ShouldRefresh(status, retry, skipAuth, path) ==
    status = 401 /\ retry /\ ~skipAuth /\ path /= RefreshPath

\* refreshAccessToken() joining a refresh call that is already in flight
\* in place of making its own.
BeginRefreshCoalesced(c, st) ==
    LET refreshToken == getRefreshToken(st)
        c1 == [c EXCEPT !.log = Append(c.log, <<"refreshAccessToken", 0>>)]
    IN  IF ~Truthy(refreshToken) \/ \E q \in BagToSet(pending) : q.pc = "refresh"
          THEN [c1 EXCEPT !.pc = "errorBody"]
          ELSE [c1 EXCEPT !.pc = "refresh", !.sent = refreshToken,
                          !.log = Append(c1.log, <<"refreshCall", 0>>)]

\* api.ts 94-104 without the early return of lines 95-97.
BeginRefreshWithoutToken(c, st) ==
    [c EXCEPT !.pc = "refresh", !.sent = getRefreshToken(st),
              !.log = c.log \o <<<<"refreshAccessToken", 0>>, <<"refreshCall", 0>>>>]

\* refreshAccessToken() up to its fetch (api.ts 94-104): with no refresh
\* token it returns false at once and request() goes on to line 153.
BeginRefresh(c, st) ==
    LET refreshToken == getRefreshToken(st)
        c1 == [c EXCEPT !.log = Append(c.log, <<"refreshAccessToken", 0>>)]
    IN  IF ~Truthy(refreshToken)
          THEN [c1 EXCEPT !.pc = "errorBody"]
          ELSE [c1 EXCEPT !.pc = "refresh", !.sent = refreshToken,
                          !.log = Append(c1.log, <<"refreshCall", 0>>)]

\* request() after its fetch resolved with `status` (api.ts 146-177), up to
\* the next await. While the body of a 2xx response is read the record
\* keeps the credential the request carried: the body is the server's
\* answer to that credential.
AfterResponse(c, status, st) ==
    LET c1 == [c EXCEPT !.status = status, !.bearer = None,
                        !.log = Append(c.log, <<"response", status>>)]
    IN  IF ShouldRefresh(status, c.retry, c.skipAuth, c.path)
          THEN BeginRefresh(c1, st)
        ELSE IF ~IsOk(status) THEN [c1 EXCEPT !.pc = "errorBody"]
        ELSE IF status = 204 THEN [c1 EXCEPT !.pc = "empty"]
        ELSE [c1 EXCEPT !.pc = "body", !.bearer = c.bearer]

\* api.ts line 149 passing the options on as they are.
RetryWithSameOptions(c, st) == Dispatch([c EXCEPT !.sent = None], st)

\* The recursive call of api.ts line 149: the same request, retry false.
Retry(c, st) == Dispatch([c EXCEPT !.retry = FALSE, !.sent = None], st)

\* refreshAccessToken() after its fetch resolved (api.ts 106-111): a non-2xx
\* answer makes it return false, and request() goes on to line 153 with the
\* response of its own fetch.
AfterRefreshResponse(c, status) ==
    LET c1 == [c EXCEPT !.log = Append(c.log, <<"refreshResponse", status>>)]
    IN  IF ~IsOk(status) THEN [c1 EXCEPT !.pc = "errorBody", !.sent = None]
        ELSE [c1 EXCEPT !.pc = "refreshBody"]

\* api.ts 106-109 without the clearAuthStorage() of line 107.
RefreshResponseKeepsStorage(st, status) == st

\* api.ts 106-109 removing the two tokens and leaving the user snapshot.
RefreshResponseClearsTokensOnly(st, status) ==
    IF IsOk(status) THEN st
    ELSE [t \in StorageType |->
            [st[t] EXCEPT ![ACCESS_TOKEN_KEY] = None, ![REFRESH_TOKEN_KEY] = None]]

\* Storage after the refresh fetch resolved (api.ts 106-109).
RefreshResponseStorage(st, status) ==
    IF ~IsOk(status) THEN clearAuthStorage(st) ELSE st

\* api.ts 111-117 ending the session when the body carries no access token.
RefreshBodyClearsWithoutToken(st, data) ==
    IF Truthy(data) THEN updateAccessToken(st, data) ELSE clearAuthStorage(st)

\* Storage after the refresh body was parsed (api.ts 111-115).
RefreshBodyStorage(st, data) ==
    IF Truthy(data) THEN updateAccessToken(st, data) ELSE st

\* refreshAccessToken() after its body was parsed (api.ts 111-117) and
\* request() after it returned (api.ts 148-153); st is the storage after
\* RefreshBodyStorage.
AfterRefreshBody(c, data, st) ==
    IF Truthy(data)
      THEN Retry([c EXCEPT !.log = Append(c.log, <<"refreshed", 1>>)], st)
      ELSE [c EXCEPT !.pc = "errorBody", !.sent = None,
                     !.log = Append(c.log, <<"refreshed", 0>>)]

\* `return undefined as T` on a 204 (api.ts 168-170): login, signup and
\* fetchCurrentUser then read a property of undefined and throw TypeError.
ReturnEmpty(c) ==
    IF c.op \in {"login", "signup", "fetchCurrentUser"}
      THEN Settle(c, "TypeError", c.status, None)
      ELSE Settle(c, "returned", c.status, None)

\* ---------------------------------------------------------------- Init
Init ==
    /\ storage = EmptyStorage
    /\ currentUser = None
    /\ pending = EmptyBag
    /\ settled = IdleCall

\* Fewer than `max` operations are in flight: one more may start.
Free(max) == settled = IdleCall /\ BagCardinality(pending) < max

\* A new operation c awaits its fetch.
Starts(c) ==
    /\ pending' = pending (+) SetToBag({c})
    /\ settled' = IdleCall

\* The operation c of the bag goes on to c2: it awaits its next promise, or
\* it has ended and leaves the bag.
Continues(c, c2) ==
    IF c2.pc = "done"
      THEN /\ pending' = pending (-) SetToBag({c})
           /\ settled' = c2
      ELSE /\ pending' = (pending (-) SetToBag({c})) (+) SetToBag({c2})
           /\ settled' = IdleCall

Awaiting(c, pc) == settled = IdleCall /\ BagIn(c, pending) /\ c.pc = pc

\* Paths the pages call through apiClient with options of their own.
Paths == {"/organizations/1", RefreshPath}

RefreshStatuses == {200, 401, 500}

\* ------------------------------------------------- operations are started
Login(max, rememberMe) ==
    /\ Free(max)
    /\ Starts(StartCall("login", "/auth/login", TRUE, TRUE, rememberMe, storage))
    /\ UNCHANGED <<storage, currentUser>>

Signup(max) ==
    /\ Free(max)
    /\ Starts(StartCall("signup", "/auth/register", TRUE, TRUE, TRUE, storage))
    /\ UNCHANGED <<storage, currentUser>>

FetchCurrentUser(max) ==
    /\ Free(max)
    /\ Starts(StartCall("fetchCurrentUser", "/users/me", FALSE, TRUE, FALSE, storage))
    /\ UNCHANGED <<storage, currentUser>>

ResetPassword(max) ==
    /\ Free(max)
    /\ Starts(StartCall("resetPassword", "/auth/reset-password", TRUE, TRUE, FALSE, storage))
    /\ UNCHANGED <<storage, currentUser>>

ApiCall(max, path, skipAuth, retry) ==
    /\ Free(max)
    /\ Starts(StartCall("apiClient", path, skipAuth, retry, FALSE, storage))
    /\ UNCHANGED <<storage, currentUser>>

\* ------------------------------------------------ network calls resolve
\* request() ending the session when the re-issued request is answered 401.
FetchResponseEndingSession(c, status) ==
    /\ Awaiting(c, "fetch")
    /\ LET c2 == AfterResponse(c, status, storage)
       IN  Continues(c, IF c2.pc = "empty" THEN ReturnEmpty(c2) ELSE c2)
    /\ storage' = IF status = 401 /\ ~c.retry /\ ~c.skipAuth
                    THEN clearAuthStorage(storage) ELSE storage
    /\ UNCHANGED currentUser

\* The fetch of request() resolves with a response (api.ts 139-177).
FetchResponse(c, status) ==
    /\ Awaiting(c, "fetch")
    /\ LET c2 == AfterResponse(c, status, storage)
       IN  Continues(c, IF c2.pc = "empty" THEN ReturnEmpty(c2) ELSE c2)
    /\ UNCHANGED <<storage, currentUser>>

\* fetch rejects (transport failure): nothing catches the TypeError.
FetchRejected(c) ==
    /\ Awaiting(c, "fetch")
    /\ Continues(c, Settle([c EXCEPT !.log = Append(@, <<"rejected", NetworkError>>)],
                           "TypeError", NetworkError, None))
    /\ UNCHANGED <<storage, currentUser>>

\* The refresh fetch resolves (api.ts 106-111).
RefreshResponse(c, status) ==
    /\ Awaiting(c, "refresh")
    /\ storage' = RefreshResponseStorage(storage, status)
    /\ Continues(c, AfterRefreshResponse(c, status))
    /\ UNCHANGED currentUser

RefreshRejected(c) ==
    /\ Awaiting(c, "refresh")
    /\ Continues(c, Settle([c EXCEPT !.log = Append(@, <<"refreshRejected", NetworkError>>)],
                           "TypeError", NetworkError, None))
    /\ UNCHANGED <<storage, currentUser>>

\* The re-issued request built from the token read before the refresh
\* wrote the new one.
RefreshBodyRetryingWithOldToken(c, data) ==
    /\ Awaiting(c, "refreshBody")
    /\ storage' = RefreshBodyStorage(storage, data)
    /\ Continues(c, AfterRefreshBody(c, data, storage))
    /\ UNCHANGED currentUser

\* response.json() of the refresh response resolves (api.ts 111-117), and on
\* success request() calls itself (api.ts 148-150).
RefreshBody(c, data) ==
    /\ Awaiting(c, "refreshBody")
    /\ storage' = RefreshBodyStorage(storage, data)
    /\ Continues(c, AfterRefreshBody(c, data, storage'))
    /\ UNCHANGED currentUser

\* response.json() of the refresh response rejects: the body is not JSON.
RefreshBodyMalformed(c) ==
    /\ Awaiting(c, "refreshBody")
    /\ Continues(c, Settle([c EXCEPT !.log = Append(@, <<"refreshMalformed", 0>>)],
                           "SyntaxError", c.status, None))
    /\ UNCHANGED <<storage, currentUser>>

\* The facade ending the session when one of its requests fails.
ErrorBodyLoggingOut(c, data, statusText) ==
    /\ Awaiting(c, "errorBody")
    /\ Continues(c, IF data.parsed = "null"
                      THEN Settle(c, "TypeError", c.status, None)
                      ELSE SettleError(c, c.status,
                                       parseErrorMessage(data, statusText)))
    /\ storage' = clearAuthStorage(storage)
    /\ currentUser' = None

\* The error body was read, or could not be (api.ts 153-166): a body that
\* is not JSON counts as {}; of a null body parseErrorMessage cannot read
\* the error field, which throws a TypeError in place of the ApiError.
ErrorBody(c, data, statusText) ==
    /\ Awaiting(c, "errorBody")
    /\ Continues(c, IF data.parsed = "null"
                      THEN Settle(c, "TypeError", c.status, None)
                      ELSE SettleError(c, c.status,
                                       parseErrorMessage(data, statusText)))
    /\ UNCHANGED <<storage, currentUser>>

\* -------------------------------- the body of a 2xx response was read
\* login continues after `await apiClient.post` (auth.ts 34-43).
LoginBody(c, accessToken, refreshToken, user) ==
    /\ Awaiting(c, "body") /\ c.op = "login"
    /\ currentUser' = user
    /\ storage' = setStoredUser(
                    setAuthTokens(storage, accessToken, refreshToken, c.rememberMe),
                    user, c.rememberMe)
    /\ Continues(c, Settle(c, "returned", c.status, user))

\* signup continues (auth.ts 61-70): always the persistent lifetime.
SignupBody(c, accessToken, refreshToken, user) ==
    /\ Awaiting(c, "body") /\ c.op = "signup"
    /\ currentUser' = user
    /\ storage' = setStoredUser(
                    setAuthTokens(storage, accessToken, refreshToken, TRUE),
                    user, TRUE)
    /\ Continues(c, Settle(c, "returned", c.status, user))

\* fetchCurrentUser returning the user without updateCurrentUser.
FetchCurrentUserBodyNoUpdate(c, user) ==
    /\ Awaiting(c, "body") /\ c.op = "fetchCurrentUser"
    /\ Continues(c, Settle(c, "returned", c.status, user))
    /\ UNCHANGED <<storage, currentUser>>

\* fetchCurrentUser continues (auth.ts 90-91).
FetchCurrentUserBody(c, user) ==
    /\ Awaiting(c, "body") /\ c.op = "fetchCurrentUser"
    /\ currentUser' = user
    /\ storage' = updateCurrentUser(storage, user)
    /\ Continues(c, Settle(c, "returned", c.status, user))

\* api.ts 172-177 parsing every body, whatever its content type.
PlainBodyAlwaysParsing(c, contentType, text) ==
    /\ Awaiting(c, "body") /\ c.op \in {"resetPassword", "apiClient"}
    /\ Continues(c, IF JSONparse(text) = SyntaxError
                      THEN Settle(c, SyntaxError, c.status, None)
                      ELSE Settle(c, "returned", c.status, JSONparse(text)))
    /\ UNCHANGED <<storage, currentUser>>

\* resetPassword and plain apiClient calls only return the body
\* (api.ts 172-177): parsed if the response declares JSON, else as text.
PlainBody(c, contentType, text) ==
    /\ Awaiting(c, "body") /\ c.op \in {"resetPassword", "apiClient"}
    /\ Continues(c, IF ~IsJson(contentType)
                      THEN Settle(c, "returned", c.status, text)
                    ELSE IF JSONparse(text) = SyntaxError
                      THEN Settle(c, SyntaxError, c.status, None)
                    ELSE Settle(c, "returned", c.status, JSONparse(text)))
    /\ UNCHANGED <<storage, currentUser>>

\* ------------------------------------------ synchronous facade operations
\* A synchronous facade method returns `value` to its caller in the step
\* it is called in.
Returns(op, value) ==
    settled' = Settle([IdleCall EXCEPT !.op = op], "returned", NoResponse, value)

Logout ==
    /\ settled = IdleCall
    /\ currentUser' = None
    /\ storage' = clearAuthStorage(storage)
    /\ Returns("logout", None)
    /\ UNCHANGED pending

UpdateCurrentUser(user) ==
    /\ settled = IdleCall
    /\ currentUser' = user
    /\ storage' = updateCurrentUser(storage, user)
    /\ Returns("updateCurrentUser", None)
    /\ UNCHANGED pending

\* A synchronous method throws: nothing in auth.ts or api.ts catches the
\* SyntaxError of getStoredUser's JSON.parse.
Throws(op, kind) ==
    settled' = Settle([IdleCall EXCEPT !.op = op], kind, NoResponse, None)

GetCurrentUser ==
    /\ settled = IdleCall
    /\ LET user == getCurrentUser(currentUser, storage)
       IN  IF user = SyntaxError
             THEN Throws("getCurrentUser", SyntaxError) /\ UNCHANGED currentUser
             ELSE currentUser' = user /\ Returns("getCurrentUser", user)
    /\ UNCHANGED <<storage, pending>>

\* getAccessToken() && this.getCurrentUser(): the user is looked up, and
\* cached, only when there is an access token (auth.ts 107).
IsAuthenticated ==
    /\ settled = IdleCall
    /\ LET user == IF Truthy(getAccessToken(storage))
                     THEN getCurrentUser(currentUser, storage)
                     ELSE currentUser
       IN  IF user = SyntaxError
             THEN Throws("isAuthenticated", SyntaxError) /\ UNCHANGED currentUser
             ELSE /\ currentUser' = user
                  /\ Returns("isAuthenticated",
                             IF isAuthenticated(currentUser, storage)
                               THEN "true" ELSE "false")
    /\ UNCHANGED <<storage, pending>>

\* The page is loaded again: the module constructs a new AuthService
\* (auth.ts 26 and 123) over the storage the last page left, and the
\* requests of the last page are gone.
Reload ==
    /\ settled = IdleCall
    /\ currentUser' = None
    /\ pending' = EmptyBag
    /\ settled' = IdleCall
    /\ UNCHANGED storage

\* ---------------------------------------------------------------- Next
\* A network promise of the operation c settles.
Resolve(c) ==
    \/ \E status \in Statuses : FetchResponse(c, status)
    \/ FetchRejected(c)
    \/ \E status \in RefreshStatuses : RefreshResponse(c, status)
    \/ RefreshRejected(c)
    \/ \E data \in RefreshPayloads : RefreshBody(c, data)
    \/ RefreshBodyMalformed(c)
    \/ ErrorBody(c, UsualErrorPayload, <<"S">>)
    \/ \E accessToken \in AccessTokens, refreshToken \in RefreshTokens,
          user \in Users : LoginBody(c, accessToken, refreshToken, user)
    \/ \E accessToken \in AccessTokens, refreshToken \in RefreshTokens,
          user \in Users : SignupBody(c, accessToken, refreshToken, user)
    \/ \E user \in Users : FetchCurrentUserBody(c, user)
    \/ PlainBody(c, "application/json", "{id:1}")

\* The caller of the operation that ended takes its result or its error.
ReturnToCaller ==
    /\ settled /= IdleCall
    /\ settled' = IdleCall
    /\ UNCHANGED <<storage, currentUser, pending>>

\* Some pending promise settles.
ResolveSome == \E c \in BagToSet(pending) : Resolve(c)

\* A synchronous call of the facade.
Facade ==
    \/ Logout
    \/ \E user \in Users \cup {None} : UpdateCurrentUser(user)
    \/ GetCurrentUser
    \/ IsAuthenticated

\* The application: the facade's operations and the pages' apiClient calls
\* with default options, up to NumProcs of them in flight at once.
Next ==
    \/ \E rememberMe \in BOOLEAN : Login(NumProcs, rememberMe)
    \/ Signup(NumProcs)
    \/ FetchCurrentUser(NumProcs)
    \/ ResetPassword(NumProcs)
    \/ ApiCall(NumProcs, "/organizations/1", FALSE, TRUE)
    \/ ResolveSome
    \/ ReturnToCaller
    \/ Facade
    \/ Reload

Spec == Init /\ [][Next]_vars

\* One operation at a time, with every combination of request() options.
NextOptions ==
    \/ \E rememberMe \in BOOLEAN : Login(1, rememberMe)
    \/ Signup(1)
    \/ FetchCurrentUser(1)
    \/ ResetPassword(1)
    \/ \E path \in Paths, skipAuth \in BOOLEAN, retry \in BOOLEAN :
          ApiCall(1, path, skipAuth, retry)
    \/ ResolveSome
    \/ ReturnToCaller
    \/ Facade

SpecOptions == Init /\ [][NextOptions]_vars

\* Every network call eventually responds, however many synchronous facade
\* calls are made in between, and a caller continues as soon as its call
\* has returned.
FairSpec == SpecOptions /\ SF_vars(ResolveSome) /\ WF_vars(ReturnToCaller)

\* ------------------------------------------- every body a server may send
\* A response body of the operation c is read, whatever it is.
ResolveBody(c) ==
    \/ \E data \in ErrorPayloads, statusText \in StatusTexts :
          ErrorBody(c, data, statusText)
    \/ \E contentType \in ContentTypes, text \in BodyTexts :
          PlainBody(c, contentType, text)

\* One operation at a time, with every error body, status text, content
\* type and body text.
NextBodies ==
    \/ \E rememberMe \in BOOLEAN : Login(1, rememberMe)
    \/ Signup(1)
    \/ FetchCurrentUser(1)
    \/ ResetPassword(1)
    \/ \E path \in Paths : ApiCall(1, path, FALSE, TRUE)
    \/ \E c \in BagToSet(pending) : Resolve(c) \/ ResolveBody(c)
    \/ ReturnToCaller
    \/ Logout

SpecBodies == Init /\ [][NextBodies]_vars

\* ------------------------------------------ the credential store alone
\* What one lifetime may hold when the page is loaded: whatever an earlier
\* page, another version of the application or the user left there.
LifetimeContents ==
    {[k \in Keys |-> IF k = ACCESS_TOKEN_KEY THEN a
                     ELSE IF k = REFRESH_TOKEN_KEY THEN r ELSE u] :
        a \in {None, "a1"}, r \in {None, "r1"}, u \in {None, "{id:1}", Malformed}}

AnyStorage == [StorageType -> LifetimeContents]

InitStore ==
    /\ storage \in AnyStorage
    /\ currentUser \in {None, "u1"}
    /\ pending = EmptyBag
    /\ settled = IdleCall

\* The exported functions of the credential store, called one by one.
SetAuthTokens(accessToken, refreshToken, rememberMe) ==
    /\ settled = IdleCall
    /\ storage' = setAuthTokens(storage, accessToken, refreshToken, rememberMe)
    /\ Returns("setAuthTokens", None)
    /\ UNCHANGED <<currentUser, pending>>

SetStoredUser(user, rememberMe) ==
    /\ settled = IdleCall
    /\ storage' = setStoredUser(storage, user, rememberMe)
    /\ Returns("setStoredUser", None)
    /\ UNCHANGED <<currentUser, pending>>

ClearAuthStorage ==
    /\ settled = IdleCall
    /\ storage' = clearAuthStorage(storage)
    /\ Returns("clearAuthStorage", None)
    /\ UNCHANGED <<currentUser, pending>>

UpdateAccessToken(token) ==
    /\ settled = IdleCall
    /\ storage' = updateAccessToken(storage, token)
    /\ Returns("updateAccessToken", None)
    /\ UNCHANGED <<currentUser, pending>>

GetAccessToken ==
    /\ settled = IdleCall
    /\ Returns("getAccessToken", getAccessToken(storage))
    /\ UNCHANGED <<storage, currentUser, pending>>

GetRefreshToken ==
    /\ settled = IdleCall
    /\ Returns("getRefreshToken", getRefreshToken(storage))
    /\ UNCHANGED <<storage, currentUser, pending>>

GetStoredUser ==
    /\ settled = IdleCall
    /\ LET user == getStoredUser(storage)
       IN  IF user = SyntaxError
             THEN Throws("getStoredUser", SyntaxError)
             ELSE Returns("getStoredUser", user)
    /\ UNCHANGED <<storage, currentUser, pending>>

NextStore ==
    \/ \E accessToken \in AccessTokens, refreshToken \in RefreshTokens,
          rememberMe \in BOOLEAN :
            SetAuthTokens(accessToken, refreshToken, rememberMe)
    \/ \E user \in Users, rememberMe \in BOOLEAN : SetStoredUser(user, rememberMe)
    \/ ClearAuthStorage
    \/ \E token \in AccessTokens : UpdateAccessToken(token)
    \/ GetAccessToken
    \/ GetRefreshToken
    \/ GetStoredUser
    \/ GetCurrentUser
    \/ IsAuthenticated
    \/ ReturnToCaller

StoreSpec == InitStore /\ [][NextStore]_vars

\* ------------------------------------------ a server that keeps sessions
\* The login session a token or a user belongs to: the server issues the
\* tokens a1 and r1 to the user u1 and a2 and r2 to u2, and refreshing with
\* a refresh token gives an access token of the same session.
SessionOf(x) ==
    IF x \in {"a1", "r1", "u1"} THEN 1
    ELSE IF x \in {"a2", "r2", "u2"} THEN 2
    ELSE 0

\* The server answers the operation c as a server does: a request that
\* needs a credential succeeds only if it carried one, a login or signup
\* returns the tokens and the user of one session, a refresh the access
\* token of the session of the refresh token it was sent, and /users/me the
\* user of the session of the bearer credential.
ResolveSessions(c) ==
    \/ \E status \in Statuses :
          /\ (IsOk(status) /\ ~c.skipAuth) => c.bearer /= None
          /\ FetchResponse(c, status)
    \/ \E status \in RefreshStatuses : RefreshResponse(c, status)
    \/ \E data \in AccessTokens :
          /\ SessionOf(data) = SessionOf(c.sent)
          /\ RefreshBody(c, data)
    \/ ErrorBody(c, UsualErrorPayload, <<"S">>)
    \/ \E accessToken \in AccessTokens, refreshToken \in RefreshTokens,
          user \in Users :
          /\ SessionOf(accessToken) = SessionOf(user)
          /\ SessionOf(refreshToken) = SessionOf(user)
          /\ \/ LoginBody(c, accessToken, refreshToken, user)
             \/ SignupBody(c, accessToken, refreshToken, user)
    \/ \E user \in Users :
          /\ SessionOf(user) = SessionOf(c.bearer)
          /\ FetchCurrentUserBody(c, user)
    \/ PlainBody(c, "application/json", "{id:1}")

\* The application against such a server: logins, signups, logouts, calls
\* of /users/me and of the pages, up to NumProcs of them in flight.
NextSessions ==
    \/ \E rememberMe \in BOOLEAN : Login(NumProcs, rememberMe)
    \/ Signup(NumProcs)
    \/ FetchCurrentUser(NumProcs)
    \/ ApiCall(NumProcs, "/organizations/1", FALSE, TRUE)
    \/ \E c \in BagToSet(pending) : ResolveSessions(c)
    \/ ReturnToCaller
    \/ Logout

SpecSessions == Init /\ [][NextSessions]_vars

\* ------------------------------------ what is in flight when logout runs
\* Storage with the session of u1, as a login leaves it.
StoredSession(rememberMe) ==
    setStoredUser(setAuthTokens(EmptyStorage, "a1", "r1", rememberMe),
                  "u1", rememberMe)

\* The operations of the facade that may be awaiting their network calls
\* when the user logs out: started under the session of u1 and awaiting
\* their fetch, or answered (200 or 401) and awaiting the next promise.
InFlightAtLogout ==
    LET st == StoredSession(TRUE)
        started ==
            {StartCall("login", "/auth/login", TRUE, TRUE, rememberMe, st) :
                rememberMe \in BOOLEAN}
            \cup {StartCall("signup", "/auth/register", TRUE, TRUE, TRUE, st),
                  StartCall("fetchCurrentUser", "/users/me", FALSE, TRUE, FALSE, st)}
    IN  started \cup {AfterResponse(c, status, st) :
                        c \in started, status \in {200, 401}}

\* logout() has just run (auth.ts 73-76) with one or two operations in
\* flight.
InitAfterLogout ==
    /\ storage = clearAuthStorage(StoredSession(TRUE))
    /\ currentUser = None
    /\ settled = Settle([IdleCall EXCEPT !.op = "logout"], "returned", NoResponse, None)
    /\ \E c \in InFlightAtLogout, d \in InFlightAtLogout :
          pending \in {SetToBag({c}), SetToBag({c}) (+) SetToBag({d})}

\* After the logout nothing is started: the operations in flight complete.
NextAfterLogout ==
    \/ ResolveSome
    \/ ReturnToCaller

SpecAfterLogout == InitAfterLogout /\ [][NextAfterLogout]_vars

\* ------------------------------------------------------------ the claims
\* Every invocation there is to see: those in flight and the one that has
\* just ended.
Calls == BagToSet(pending) \cup {settled}

InFlight(c) == c.pc \notin {"idle", "done"}

\* In this step the invocation c goes on to c2 (c2 has ended if its pc is
\* "done") and no other invocation moves.
Moves(c, c2) ==
    /\ BagIn(c, pending)
    /\ c2 /= c
    /\ IF c2.pc = "done"
         THEN settled' = c2 /\ pending' = pending (-) SetToBag({c})
         ELSE /\ settled' = IdleCall
              /\ pending' = (pending (-) SetToBag({c})) (+) SetToBag({c2})

\* What one logical request() invocation did so far, read from its log.
Count(log, kind) == Cardinality({i \in DOMAIN log : log[i][1] = kind})

Has(log, kind) == \E i \in DOMAIN log : log[i][1] = kind

Last(log) == log[Len(log)]

\* The status of the initial attempt's response (the log's second entry).
Answered(log) == Len(log) >= 2 /\ log[2][1] = "response"

FirstStatus(log) == log[2][2]

\* C1: request() invokes the refresh protocol (refreshAccessToken) if and
\* only if its response is a 401, retry is true, skipAuth is false and the
\* path is not /auth/refresh; otherwise no refresh call is made and the
\* response goes straight to the success or error handling. The re-issued
\* request runs with retry false, so one invocation enters the protocol at
\* most once.
C1_RefreshIffEligible ==
    \A c \in Calls :
        LET eligible == /\ FirstStatus(c.log) = 401
                        /\ c.retryOpt
                        /\ ~c.skipAuth
                        /\ c.path /= "/auth/refresh"
        IN  Answered(c.log) =>
              /\ Count(c.log, "refreshAccessToken") = (IF eligible THEN 1 ELSE 0)
              /\ ~eligible =>
                   /\ Count(c.log, "refreshCall") = 0
                   /\ Len(c.log) = 2
                   /\ IsOk(FirstStatus(c.log)) =>
                        \/ c.pc = "body"
                        \/ c.pc = "done" /\ c.outcome.kind \in {"returned", "TypeError"}
                   /\ ~IsOk(FirstStatus(c.log)) =>
                        \/ c.pc = "errorBody"
                        \/ c.pc = "done" /\ c.outcome.kind = "ApiError"

\* A 401 on the refresh path itself, with a refresh token stored, retry true
\* and skipAuth false, has gone to the error handling without a refresh.
C1_Witness ==
    /\ settled.pc = "done"
    /\ settled.outcome.kind = "ApiError"
    /\ settled.outcome.status = 401
    /\ settled.path = "/auth/refresh"
    /\ ~settled.skipAuth
    /\ settled.retryOpt
    /\ Truthy(getRefreshToken(storage))
    /\ Len(settled.log) = 2

\* C2: after a successful refresh the request is re-issued exactly once,
\* with retry false: one invocation makes at most one refresh call and at
\* most two dispatches, a 401 on the second attempt starts no second refresh,
\* and when every network call is answered the invocation ends, returning
\* or throwing.
C2_Bounded ==
    \A c \in Calls :
        LET refreshed == \E i \in DOMAIN c.log : c.log[i] = <<"refreshed", 1>>
        IN  /\ Count(c.log, "refreshCall") <= 1
            /\ Count(c.log, "refreshAccessToken") <= 1
            /\ Count(c.log, "dispatch") = (IF Len(c.log) = 0 THEN 0
                                           ELSE IF refreshed THEN 2 ELSE 1)
            /\ refreshed => ~c.retry
            /\ (Count(c.log, "dispatch") = 2 /\ Count(c.log, "response") = 2) =>
                 /\ Last(c.log)[1] = "response"
                 /\ Last(c.log)[2] = 401 =>
                      \/ c.pc = "errorBody"
                      \/ c.pc = "done" /\ c.outcome.kind = "ApiError"

C2_OneRetryAndTerminates ==
    /\ []C2_Bounded
    /\ (pending /= EmptyBag) ~>
         (settled.pc = "done"
            /\ Len(settled.log) > 0
            /\ settled.outcome.kind \in {"returned", "ApiError", "TypeError", "SyntaxError"})

\* A re-issued request was answered 401 and ended in an ApiError.
C2_Witness ==
    /\ settled.pc = "done"
    /\ Count(settled.log, "dispatch") = 2
    /\ Last(settled.log) = <<"response", 401>>
    /\ settled.outcome.kind = "ApiError"

\* The log of an invocation whose first attempt was answered 401, whose
\* refresh call was answered `refreshStatus` with a usable access token, and
\* whose second attempt was answered `status`.
RefreshedLog(refreshStatus, status) ==
    <<<<"dispatch", 0>>, <<"response", 401>>, <<"refreshAccessToken", 0>>,
      <<"refreshCall", 0>>, <<"refreshResponse", refreshStatus>>,
      <<"refreshed", 1>>, <<"dispatch", 0>>, <<"response", status>>>>

\* C3: a retry-eligible request answered 401, with a refresh token stored, a
\* refresh call answered 2xx with an access token and a second attempt
\* answered 2xx gives its caller the result of the second response, after
\* exactly one refresh call and exactly two calls of the endpoint; for
\* fetchCurrentUser (second response 200 with a user) that user is returned
\* and is the in-memory user when it returns.
C3_ExpiryInvisible ==
    \A refreshStatus \in {s \in RefreshStatuses : IsOk(s)},
       status \in {s \in Statuses : IsOk(s)} :
      (/\ settled.pc = "done"
       /\ Answered(settled.log) /\ FirstStatus(settled.log) = 401
       /\ settled.retryOpt /\ ~settled.skipAuth
       /\ \E i \in DOMAIN settled.log :
             settled.log[i] = <<"refreshResponse", refreshStatus>>
       /\ \E i \in DOMAIN settled.log : settled.log[i] = <<"refreshed", 1>>
       /\ Last(settled.log) = <<"response", status>>) =>
         /\ settled.log = RefreshedLog(refreshStatus, status)
         /\ Count(settled.log, "refreshCall") = 1
         /\ Count(settled.log, "dispatch") = 2
         /\ settled.outcome.status = status
         /\ settled.op = "apiClient" => settled.outcome.kind = "returned"
         /\ (settled.op = "fetchCurrentUser" /\ status = 200) =>
              /\ settled.outcome.kind = "returned"
              /\ settled.outcome.value \in Users
              /\ currentUser = settled.outcome.value
              /\ getCurrentUser(currentUser, storage) = settled.outcome.value

\* fetchCurrentUser has returned the user of its second response.
C3_Witness ==
    /\ settled.pc = "done" /\ settled.op = "fetchCurrentUser"
    /\ settled.log = RefreshedLog(200, 200)
    /\ settled.outcome.kind = "returned"
    /\ settled.outcome.value = "u2"
    /\ currentUser = "u2"

FailedRefreshLog(refreshStatus) ==
    <<<<"dispatch", 0>>, <<"response", 401>>, <<"refreshAccessToken", 0>>,
      <<"refreshCall", 0>>, <<"refreshResponse", refreshStatus>>>>

\* C4: when the refresh call of a retry-eligible request answered 401 is
\* itself answered non-2xx, the credential store is cleared in both
\* lifetimes (getAccessToken and getRefreshToken return none), no retry is
\* dispatched, and the caller gets an ApiError with the status 401 of the
\* request's own response, whatever the status of the refresh response.
C4_RefreshRejectedEndsSession ==
    /\ [][\A c \in BagToSet(pending), c2 \in BagToSet(pending') :
            \A refreshStatus \in {s \in RefreshStatuses : ~IsOk(s)} :
              (/\ Moves(c, c2) /\ c.pc = "refresh"
               /\ c2.log = Append(c.log, <<"refreshResponse", refreshStatus>>)) =>
                /\ storage' = EmptyStorage
                /\ getAccessToken(storage') = None
                /\ getRefreshToken(storage') = None
                /\ c2.pc = "errorBody"
                /\ Count(c2.log, "dispatch") = 1
         ]_vars
    /\ [](\A refreshStatus \in {s \in RefreshStatuses : ~IsOk(s)} :
            (settled.pc = "done"
               /\ \E i \in DOMAIN settled.log :
                     settled.log[i] = <<"refreshResponse", refreshStatus>>) =>
              /\ settled.log = FailedRefreshLog(refreshStatus)
              /\ settled.outcome.kind = "ApiError"
              /\ settled.outcome.status = 401)

\* A refresh call answered 500 has ended a stored session, and the caller
\* got the 401.
C4_Witness ==
    /\ settled.pc = "done"
    /\ settled.log = FailedRefreshLog(500)
    /\ settled.outcome.kind = "ApiError"
    /\ settled.outcome.status = 401
    /\ storage = EmptyStorage

\* In this step the fetch of c is answered 401 and request() calls
\* refreshAccessToken().
EntersRefresh(c, c2) ==
    /\ Moves(c, c2)
    /\ c.pc = "fetch"
    /\ ~Has(c.log, "refreshAccessToken")
    /\ Has(c2.log, "refreshAccessToken")

\* C5: with no refresh token stored in either lifetime, a 401 on an
\* authenticated call makes the refresh protocol fail at once: no call of
\* the refresh endpoint, storage unchanged, no retry, and the call fails
\* with the ApiError of that 401.
C5_NoTokenNoRefreshCall ==
    /\ [][\A c \in BagToSet(pending), c2 \in BagToSet(pending') :
            (EntersRefresh(c, c2) /\ getRefreshToken(storage) = None) =>
              /\ Count(c2.log, "refreshCall") = 0
              /\ storage' = storage
              /\ c2.pc = "errorBody"
              /\ c2.status = 401
         ]_vars
    /\ []((settled.pc = "done" /\ Has(settled.log, "refreshAccessToken")
             /\ ~Has(settled.log, "refreshCall")) =>
            /\ Count(settled.log, "dispatch") = 1
            /\ settled.outcome.kind = "ApiError"
            /\ settled.outcome.status = 401)

\* Such a call has failed with its 401 and without a refresh call.
C5_Witness ==
    /\ settled.pc = "done" /\ settled.op = "fetchCurrentUser"
    /\ settled.log = <<<<"dispatch", 0>>, <<"response", 401>>,
                       <<"refreshAccessToken", 0>>>>
    /\ settled.outcome.kind = "ApiError"
    /\ settled.outcome.status = 401
    /\ getRefreshToken(storage) = None

Populated(st, type) == \E k \in Keys : st[type][k] /= None

\* C6: starting from empty storage, after any interleaving of login, signup,
\* logout, updateCurrentUser, fetchCurrentUser and request/refresh steps, at
\* most one of localStorage and sessionStorage holds a refresh token, and
\* the two are never both populated.
C6_SingleActiveLifetime ==
    /\ ~(storage["local"][REFRESH_TOKEN_KEY] /= None
           /\ storage["session"][REFRESH_TOKEN_KEY] /= None)
    /\ ~(Populated(storage, "local") /\ Populated(storage, "session"))

\* A session-only login has just replaced the session under which a refresh
\* call still in flight was made.
C6_Witness ==
    /\ settled.pc = "done" /\ settled.op = "login" /\ ~settled.rememberMe
    /\ settled.outcome.kind = "returned"
    /\ storage["session"][REFRESH_TOKEN_KEY] = "r2"
    /\ storage["session"][USER_KEY] /= None
    /\ ~Populated(storage, "local")
    /\ \E c \in BagToSet(pending) : c.pc = "refresh" /\ c.sent = "r1"

\* The lifetime that holds the refresh token.
ActiveLifetime(st) ==
    IF Truthy(st["local"][REFRESH_TOKEN_KEY]) THEN "local"
    ELSE IF Truthy(st["session"][REFRESH_TOKEN_KEY]) THEN "session"
    ELSE None

\* C7: a refresh call answered 2xx with an access token writes only the
\* access token, in place in the active lifetime, and reports success: the
\* stored refresh token keeps its value, and the user snapshot and the other
\* lifetime are unchanged.
C7_RefreshWritesOnlyAccessToken ==
    [][\A c \in BagToSet(pending), c2 \in BagToSet(pending') :
         (Moves(c, c2) /\ c.pc = "refreshBody" /\ c2.pc = "fetch") =>
           /\ \A t \in StorageType :
                /\ storage'[t][REFRESH_TOKEN_KEY] = storage[t][REFRESH_TOKEN_KEY]
                /\ storage'[t][USER_KEY] = storage[t][USER_KEY]
                /\ t /= ActiveLifetime(storage) => storage'[t] = storage[t]
           /\ ActiveLifetime(storage) /= None =>
                /\ storage'[ActiveLifetime(storage)][ACCESS_TOKEN_KEY] \in AccessTokens
                /\ c2.bearer = storage'[ActiveLifetime(storage)][ACCESS_TOKEN_KEY]
           /\ c2.log = c.log \o <<<<"refreshed", 1>>, <<"dispatch", 0>>>>
      ]_vars

\* A refresh has replaced the access token of a session-only session, next
\* to its refresh token and user snapshot, and the request was re-issued
\* with the new token.
C7_Witness ==
    \E c \in BagToSet(pending) :
        /\ c.pc = "fetch" /\ Count(c.log, "dispatch") = 2
        /\ storage["session"][REFRESH_TOKEN_KEY] = "r1"
        /\ storage["session"][ACCESS_TOKEN_KEY] = "a2"
        /\ storage["session"][USER_KEY] /= None
        /\ c.bearer = "a2"

\* C8: a refresh call answered 2xx without an access token in its body
\* reports failure and leaves every stored credential of both lifetimes
\* untouched; the 401 of the request then goes to the error handling and no
\* retry is dispatched.
C8_MalformedRefreshKeepsSession ==
    /\ [][\A c \in BagToSet(pending), c2 \in BagToSet(pending') :
            (Moves(c, c2) /\ c.pc = "refreshBody" /\ c2.pc /= "fetch") =>
              /\ storage' = storage
              /\ c2.pc = "errorBody"
              /\ c2.status = 401
              /\ c2.log = Append(c.log, <<"refreshed", 0>>)
         ]_vars
    /\ []((settled.pc = "done" /\ Has(settled.log, "refreshed")
             /\ Last(settled.log) = <<"refreshed", 0>>) =>
            /\ Count(settled.log, "dispatch") = 1
            /\ settled.outcome.kind = "ApiError"
            /\ settled.outcome.status = 401)

\* Such a request has failed with its 401 while the session is still stored.
C8_Witness ==
    /\ settled.pc = "done"
    /\ Has(settled.log, "refreshed")
    /\ Last(settled.log) = <<"refreshed", 0>>
    /\ settled.outcome.kind = "ApiError"
    /\ settled.outcome.status = 401
    /\ Truthy(getRefreshToken(storage))
    /\ Truthy(getAccessToken(storage))

\* The index of the first entry of `kind` in a log, 0 when there is none.
First(log, kind) ==
    IF Has(log, kind) THEN CHOOSE i \in DOMAIN log :
                             log[i][1] = kind /\ \A j \in 1..(i - 1) : log[j][1] /= kind
    ELSE 0

\* C9: within one request() invocation the network events are totally
\* ordered: the response of the initial attempt is received before the
\* refresh call is issued, and the response of the refresh call before the
\* retried attempt is issued; no refresh call and no retried attempt occurs
\* without an earlier initial attempt of the same invocation answered 401.
C9_Ordered ==
    \A c \in Calls :
        LET log == c.log
        IN  /\ \A i \in DOMAIN log :
                 /\ log[i][1] = "refreshCall" =>
                      /\ i > 2
                      /\ log[1][1] = "dispatch"
                      /\ log[2] = <<"response", 401>>
                      /\ \A j \in 1..(i - 1) : log[j][1] /= "refreshCall"
                 /\ (log[i][1] = "dispatch" /\ i > 1) =>
                      /\ log[1][1] = "dispatch"
                      /\ log[2] = <<"response", 401>>
                      /\ \E j \in 3..(i - 1) :
                           /\ log[j][1] = "refreshCall"
                           /\ \E k \in (j + 1)..(i - 1) :
                                /\ log[k][1] = "refreshResponse"
                                /\ IsOk(log[k][2])
                 /\ log[i][1] \in {"refreshResponse", "refreshRejected"} =>
                      i > 1 /\ log[i - 1][1] = "refreshCall"
            /\ Len(log) > 0 => log[1][1] = "dispatch"
            \* A call in flight is the last thing the invocation did.
            /\ c.pc = "fetch" => Last(log)[1] = "dispatch"
            /\ c.pc = "refresh" => Last(log)[1] = "refreshCall"

\* An invocation has made its three calls, in this order.
C9_Witness ==
    \E c \in Calls :
        /\ Count(c.log, "dispatch") = 2
        /\ Count(c.log, "response") = 2
        /\ First(c.log, "response") < First(c.log, "refreshCall")
        /\ First(c.log, "refreshResponse") > First(c.log, "refreshCall")
        /\ \E i \in DOMAIN c.log : /\ c.log[i][1] = "dispatch"
                                   /\ i > First(c.log, "refreshResponse")

\* C10: concurrent request() invocations are not coordinated: a
\* retry-eligible request answered 401 while a refresh token is stored makes
\* its own refresh call, also when another invocation's refresh call is in
\* flight; two such requests make two refresh calls.
C10_NoCoordination ==
    [][\A c \in BagToSet(pending), c2 \in BagToSet(pending') :
         (EntersRefresh(c, c2) /\ Truthy(getRefreshToken(storage))) =>
           /\ c2.pc = "refresh"
           /\ Count(c2.log, "refreshCall") = 1
           /\ c2.sent = getRefreshToken(storage)
           /\ Cardinality({q \in BagToSet(pending') : q.pc = "refresh"}) >= 1
           /\ BagCardinality(pending') = BagCardinality(pending)
      ]_vars

\* Two refresh calls are in flight at the same time.
C10_Witness ==
    \E c, q \in BagToSet(pending) :
        /\ c.pc = "refresh" /\ q.pc = "refresh"
        /\ Count(c.log, "refreshCall") = 1
        /\ Count(q.log, "refreshCall") = 1
        /\ (c /= q \/ CopiesIn(c, pending) = 2)

\* C11: the operations of the credential store are atomic with respect to
\* each other under every interleaving of requests and facade calls: no
\* reader ever sees a torn setAuthTokens (one token of a pair without the
\* other, or storage cleared for a login whose tokens are not yet written)
\* nor the state between login's token write and its user-snapshot write.
C11_NoTornState ==
    /\ \A t \in StorageType :
         /\ (storage[t][ACCESS_TOKEN_KEY] = None)
              <=> (storage[t][REFRESH_TOKEN_KEY] = None)
         /\ storage[t][REFRESH_TOKEN_KEY] /= None => storage[t][USER_KEY] /= None
    /\ (getAccessToken(storage) = None) <=> (getRefreshToken(storage) = None)
    /\ getAuthStorageType(storage) /= None => getStoredUser(storage) /= None
    /\ (settled.op \in {"login", "signup"} /\ settled.outcome.kind = "returned") =>
         /\ Truthy(getAccessToken(storage))
         /\ Truthy(getRefreshToken(storage))
         /\ getStoredUser(storage) = settled.outcome.value

\* A login has written its tokens and its user while a refresh call of
\* another operation, made under the session it replaces, is in flight.
C11_Witness ==
    /\ settled.op = "login" /\ settled.outcome.kind = "returned"
    /\ storage[IF settled.rememberMe THEN "local" ELSE "session"][ACCESS_TOKEN_KEY] = "a2"
    /\ \E c \in BagToSet(pending) : c.pc = "refresh" /\ c.bearer = None /\ c.sent = "r1"

\* C12 as stated: write-through: whenever the in-memory user is present it
\* equals the persisted user snapshot; the in-memory cache never holds a
\* user that the store does not hold.
C12_WriteThrough ==
    currentUser /= None => getStoredUser(storage) = currentUser

\* C12, amended: whenever the in-memory user and a persisted user snapshot
\* are both present, they are equal; the in-memory user may be present while
\* the store holds no snapshot.
C12_ConsistentWhenPersisted ==
    \A t \in StorageType :
        (currentUser /= None /\ storage[t][USER_KEY] /= None) =>
            /\ JSONparse(storage[t][USER_KEY]) = currentUser
            /\ JSONstringify(currentUser) = storage[t][USER_KEY]

\* fetchCurrentUser has replaced the user of a session-only session, in
\* memory and in the store.
C12_Witness ==
    /\ settled.op = "fetchCurrentUser" /\ settled.outcome.kind = "returned"
    /\ settled.outcome.value = "u2"
    /\ currentUser = "u2"
    /\ storage["session"][USER_KEY] = JSONstringify("u2")
    /\ storage["session"][REFRESH_TOKEN_KEY] /= None

\* Neither tokens nor a user are left: what getAccessToken(),
\* getRefreshToken() and getCurrentUser() return.
NothingLeft(cur, st) ==
    /\ getAccessToken(st) = None
    /\ getRefreshToken(st) = None
    /\ getCurrentUser(cur, st) = None

\* C13: the token pair and the user are destroyed together: after logout,
\* and after a refresh call answered non-2xx, getAccessToken(),
\* getRefreshToken() and getCurrentUser() all return none.
C13_DestroyedTogether ==
    [][/\ Logout => NothingLeft(currentUser', storage')
       /\ \A c \in BagToSet(pending), c2 \in BagToSet(pending') :
            \A refreshStatus \in {s \in RefreshStatuses : ~IsOk(s)} :
              (/\ Moves(c, c2) /\ c.pc = "refresh"
               /\ c2.log = Append(c.log, <<"refreshResponse", refreshStatus>>)) =>
                NothingLeft(currentUser', storage')
      ]_vars

\* The invocation went through a failure: a non-2xx response of the request
\* or of the refresh call, a refresh that reported failure, a refresh body
\* that cannot be parsed, or a transport failure of one of its calls.
FailurePath(log) ==
    \E i \in DOMAIN log :
        \/ log[i][1] \in {"response", "refreshResponse"} /\ ~IsOk(log[i][2])
        \/ log[i] = <<"refreshed", 0>>
        \/ log[i][1] \in {"rejected", "refreshRejected", "refreshMalformed"}

\* C14: the pipeline never silently drops an error: every failure path of
\* request() ends in a successful retried response or in a thrown ApiError,
\* never in a normal return of another value and never in an exception of
\* another type.
C14_NoErrorDropped ==
    (/\ settled.pc = "done"
     /\ settled.op \in {"apiClient", "resetPassword"}
     /\ FailurePath(settled.log)) =>
        \/ settled.outcome.kind = "ApiError"
        \/ /\ settled.outcome.kind = "returned"
           /\ Count(settled.log, "dispatch") = 2
           /\ Last(settled.log)[1] = "response"
           /\ IsOk(Last(settled.log)[2])

\* The storage in which the lifetime `type` holds exactly the three values
\* and the other lifetime holds none of the three keys.
OnlyLifetime(type, accessToken, refreshToken, user) ==
    [t \in StorageType |->
        [k \in Keys |->
            IF t /= type THEN None
            ELSE IF k = ACCESS_TOKEN_KEY THEN accessToken
            ELSE IF k = REFRESH_TOKEN_KEY THEN refreshToken
            ELSE JSONstringify(user)]]

\* C15: after a successful login(email, password, rememberMe) the in-memory
\* user is the returned user, and the selected lifetime (persistent if
\* rememberMe, else session) holds exactly the returned access token,
\* refresh token and user snapshot while the other lifetime holds none of
\* the three keys, whatever was stored before; a successful signup does the
\* same, always with the persistent lifetime.
C15_LoginWritesOneLifetime ==
    [][\A c \in BagToSet(pending), accessToken \in AccessTokens,
          refreshToken \in RefreshTokens, user \in Users :
         /\ LoginBody(c, accessToken, refreshToken, user) =>
              /\ currentUser' = user
              /\ settled'.outcome.kind = "returned"
              /\ settled'.outcome.value = user
              /\ storage' = OnlyLifetime(IF c.rememberMe THEN "local" ELSE "session",
                                         accessToken, refreshToken, user)
         /\ SignupBody(c, accessToken, refreshToken, user) =>
              /\ currentUser' = user
              /\ settled'.outcome.kind = "returned"
              /\ settled'.outcome.value = user
              /\ storage' = OnlyLifetime("local", accessToken, refreshToken, user)
      ]_vars

\* A session-only login has returned its user over an earlier session, whose
\* access token a request still in flight carries.
C15_Witness ==
    /\ settled.op = "login" /\ ~settled.rememberMe
    /\ settled.outcome.kind = "returned" /\ settled.outcome.value = "u2"
    /\ currentUser = "u2"
    /\ storage = OnlyLifetime("session", "a2", "r2", "u2")
    /\ \E c \in BagToSet(pending) : c.pc = "fetch" /\ c.bearer = "a1"

\* C16: logout() succeeds from any state, issues no network call, and
\* leaves the in-memory user none and all three keys absent from both
\* lifetimes, so that right afterwards getCurrentUser() returns none and
\* isAuthenticated() is false.
C16_LogoutClearsEverything ==
    /\ [][Logout =>
            /\ currentUser' = None
            /\ \A t \in StorageType, k \in Keys : storage'[t][k] = None
            /\ pending' = pending
            /\ settled'.outcome.kind = "returned"
            /\ getCurrentUser(currentUser', storage') = None
            /\ ~isAuthenticated(currentUser', storage')
         ]_vars
    /\ [](settled.op = "logout" =>
            /\ currentUser = None
            /\ storage = EmptyStorage
            /\ settled.outcome.kind = "returned"
            /\ settled.log = <<>>)
    /\ [](settled = IdleCall => ENABLED Logout)

\* logout has returned while a request that carries the access token of the
\* session it ended is still in flight.
C16_Witness ==
    /\ settled.op = "logout" /\ settled.outcome.kind = "returned"
    /\ storage = EmptyStorage /\ currentUser = None
    /\ \E c \in BagToSet(pending) : c.pc = "fetch" /\ c.bearer = "a1"

\* C17: a successful fetchCurrentUser() sets the in-memory user to the
\* returned user and persists the snapshot into the lifetime that is active
\* when it completes (the one holding the refresh token), leaving the tokens
\* unchanged; if no lifetime is active the update is memory-only and storage
\* is left completely unchanged.
C17_FetchedUserPersistedIfActive ==
    [][\A c \in BagToSet(pending), user \in Users :
         FetchCurrentUserBody(c, user) =>
           /\ currentUser' = user
           /\ settled'.outcome.kind = "returned"
           /\ settled'.outcome.value = user
           /\ \A t \in StorageType :
                /\ storage'[t][ACCESS_TOKEN_KEY] = storage[t][ACCESS_TOKEN_KEY]
                /\ storage'[t][REFRESH_TOKEN_KEY] = storage[t][REFRESH_TOKEN_KEY]
           /\ IF ActiveLifetime(storage) = None
                THEN storage' = storage
                ELSE \A t \in StorageType :
                       storage'[t][USER_KEY] =
                         (IF t = ActiveLifetime(storage) THEN JSONstringify(user)
                          ELSE None)
      ]_vars

\* fetchCurrentUser has returned a user, after a refresh, while no session
\* is stored any more: the user is in memory and nothing is stored.
C17_Witness ==
    /\ settled.op = "fetchCurrentUser" /\ settled.outcome.kind = "returned"
    /\ settled.outcome.value = "u1"
    /\ Count(settled.log, "dispatch") = 2
    /\ currentUser = "u1"
    /\ storage = EmptyStorage

C19_AuthenticatedIffTokenAndUser ==
    /\ [][IsAuthenticated =>
            LET tokenExists == \E t \in StorageType : Truthy(storage[t][ACCESS_TOKEN_KEY])
                userExists == \/ currentUser /= None
                              \/ \E t \in StorageType : Truthy(storage[t][USER_KEY])
            IN  /\ settled'.outcome.kind = "returned"
                /\ settled'.outcome.value =
                     (IF tokenExists /\ userExists THEN "true" ELSE "false")
                /\ storage' = storage
         ]_vars
    /\ [](settled.op = "isAuthenticated" =>
            (settled.outcome.value = "true"
               <=> (/\ \E t \in StorageType : Truthy(storage[t][ACCESS_TOKEN_KEY])
                    /\ getCurrentUser(currentUser, storage) /= None)))

\* isAuthenticated() has returned false with a user in memory and no access
\* token stored.
C19_Witness ==
    /\ settled.op = "isAuthenticated" /\ settled.outcome.value = "false"
    /\ currentUser = "u1"
    /\ storage = EmptyStorage

\* C20: getCurrentUser() returns the in-memory user if there is one;
\* otherwise it hydrates from the snapshot of the credential store, caches
\* that value in memory and returns it; it returns none only if neither
\* source has data; it issues no network call and never modifies storage.
C20_GetCurrentUserHydrates ==
    [][GetCurrentUser =>
         LET snapshots == {storage[t][USER_KEY] : t \in StorageType} \ {None}
             value == settled'.outcome.value
         IN  /\ settled'.outcome.kind = "returned"
             /\ currentUser /= None => value = currentUser
             /\ (currentUser = None /\ snapshots /= {}) =>
                  /\ value /= None
                  /\ JSONstringify(value) \in snapshots
             /\ value = None <=> (currentUser = None /\ snapshots = {})
             /\ currentUser' = value
             /\ storage' = storage
             /\ pending' = pending
      ]_vars

\* On a reloaded page getCurrentUser() has returned the user of the stored
\* snapshot and keeps it in memory.
C20_Witness ==
    /\ settled.op = "getCurrentUser" /\ settled.outcome.value = "u2"
    /\ currentUser = "u2"
    /\ storage["local"][USER_KEY] = JSONstringify("u2")
    /\ pending = EmptyBag

\* The first present value of a key, persistent lifetime first: what the
\* read-any-lifetime lookup of the store returns.
FirstPresent(st, key) ==
    IF st["local"][key] /= None THEN st["local"][key]
    ELSE IF st["session"][key] /= None THEN st["session"][key]
    ELSE None

\* C21: for every sequence of setAuthTokens(pair, lifetime) calls with
\* arbitrary lifetimes, a following getAccessToken() / getRefreshToken()
\* returns the tokens of the pair set last, whichever lifetime that call or
\* earlier calls selected.
C21_LastPairIsRead ==
    /\ [][\A accessToken \in AccessTokens, refreshToken \in RefreshTokens,
             rememberMe \in BOOLEAN :
            SetAuthTokens(accessToken, refreshToken, rememberMe) =>
              /\ FirstPresent(storage', ACCESS_TOKEN_KEY) = accessToken
              /\ FirstPresent(storage', REFRESH_TOKEN_KEY) = refreshToken
         ]_vars
    /\ [][GetAccessToken =>
            /\ settled'.outcome.kind = "returned"
            /\ settled'.outcome.value = FirstPresent(storage, ACCESS_TOKEN_KEY)
            /\ storage' = storage]_vars
    /\ [][GetRefreshToken =>
            /\ settled'.outcome.kind = "returned"
            /\ settled'.outcome.value = FirstPresent(storage, REFRESH_TOKEN_KEY)
            /\ storage' = storage]_vars

\* getRefreshToken() has returned the refresh token of a pair that was set
\* for the session lifetime.
C21_Witness ==
    /\ settled.op = "getRefreshToken" /\ settled.outcome.value = "r2"
    /\ storage["session"][REFRESH_TOKEN_KEY] = "r2"
    /\ storage["session"][ACCESS_TOKEN_KEY] = "a2"
    /\ storage["local"] = [k \in Keys |-> None]

\* C22: after any setAuthTokens(pair, L) call, from any prior storage
\* content, the lifetime not selected holds neither an access token nor a
\* refresh token, and the selected lifetime holds exactly the two tokens of
\* the pair.
C22_OtherLifetimeHoldsNoTokens ==
    [][\A accessToken \in AccessTokens, refreshToken \in RefreshTokens,
          rememberMe \in BOOLEAN :
         SetAuthTokens(accessToken, refreshToken, rememberMe) =>
           LET selected == IF rememberMe THEN "local" ELSE "session"
           IN  \A t \in StorageType :
                 IF t = selected
                   THEN /\ storage'[t][ACCESS_TOKEN_KEY] = accessToken
                        /\ storage'[t][REFRESH_TOKEN_KEY] = refreshToken
                   ELSE /\ storage'[t][ACCESS_TOKEN_KEY] = None
                        /\ storage'[t][REFRESH_TOKEN_KEY] = None
      ]_vars

\* setAuthTokens has returned with the pair in the persistent lifetime and
\* nothing in the session lifetime.
C22_Witness ==
    /\ settled.op = "setAuthTokens"
    /\ storage["local"][ACCESS_TOKEN_KEY] = "a2"
    /\ storage["local"][REFRESH_TOKEN_KEY] = "r2"
    /\ storage["session"] = [k \in Keys |-> None]

\* C23: round trip: for any user u, any lifetime L and any prior storage
\* content, setStoredUser(u, L) followed by getStoredUser() returns a value
\* equal to u, and the snapshot is present only in lifetime L (a previous
\* snapshot in either lifetime is removed) while the stored tokens are
\* unchanged.
C23_UserRoundTrip ==
    /\ [][\A user \in Users, rememberMe \in BOOLEAN :
            SetStoredUser(user, rememberMe) =>
              LET selected == IF rememberMe THEN "local" ELSE "session"
              IN  /\ JSONparse(FirstPresent(storage', USER_KEY)) = user
                  /\ getStoredUser(storage') = user
                  /\ \A t \in StorageType :
                       /\ (storage'[t][USER_KEY] /= None) <=> (t = selected)
                       /\ storage'[t][ACCESS_TOKEN_KEY] = storage[t][ACCESS_TOKEN_KEY]
                       /\ storage'[t][REFRESH_TOKEN_KEY] = storage[t][REFRESH_TOKEN_KEY]
         ]_vars
    /\ [][\A user \in Users :
            (GetStoredUser /\ FirstPresent(storage, USER_KEY) = JSONstringify(user)) =>
              /\ settled'.outcome.kind = "returned"
              /\ settled'.outcome.value = user
              /\ storage' = storage
         ]_vars

\* getStoredUser() has returned the user that was stored for the session
\* lifetime, next to tokens of the persistent lifetime.
C23_Witness ==
    /\ settled.op = "getStoredUser" /\ settled.outcome.value = "u2"
    /\ storage["session"][USER_KEY] = JSONstringify("u2")
    /\ storage["local"][USER_KEY] = None
    /\ storage["local"][REFRESH_TOKEN_KEY] = "r1"

\* C24: getStoredUser() returns none when the stored snapshot is absent or
\* malformed: a malformed stored value is a cache miss and never raises an
\* error, so getCurrentUser() and isAuthenticated() never throw either.
C24_MalformedIsCacheMiss ==
    settled.op \in {"getStoredUser", "getCurrentUser", "isAuthenticated"} =>
        /\ settled.outcome.kind = "returned"
        /\ (settled.op = "getStoredUser"
              /\ FirstPresent(storage, USER_KEY) \in {None, Malformed}) =>
             settled.outcome.value = None

\* C25: clearAuthStorage() is idempotent and total: called from any storage
\* content, empty storage included, it raises no error and leaves all three
\* keys absent from both lifetimes, and calling it twice in a row yields the
\* same state as calling it once.
C25_ClearIdempotent ==
    /\ [](/\ \A t \in StorageType, k \in Keys : clearAuthStorage(storage)[t][k] = None
          /\ clearAuthStorage(clearAuthStorage(storage)) = clearAuthStorage(storage))
    /\ [][ClearAuthStorage =>
            /\ settled'.outcome.kind = "returned"
            /\ \A t \in StorageType, k \in Keys : storage'[t][k] = None
            /\ currentUser' = currentUser
         ]_vars
    /\ [][(ClearAuthStorage /\ storage = EmptyStorage) => storage' = storage]_vars
    /\ [](settled.op = "clearAuthStorage" =>
            settled.outcome.kind = "returned" /\ storage = EmptyStorage)

\* clearAuthStorage() has returned over emptied storage, with a user still
\* in memory.
C25_Witness ==
    /\ settled.op = "clearAuthStorage" /\ settled.outcome.kind = "returned"
    /\ storage = EmptyStorage
    /\ currentUser = "u1"

\* In this step request() starts for a new operation c2 and dispatches it.
Dispatched(c2) ==
    /\ c2.pc = "fetch" /\ Len(c2.log) = 1
    /\ pending' = pending (+) SetToBag({c2})

\* In this step request() runs for the invocation c, up to its next await
\* or its end (the facade's handling of a login, signup or current-user
\* body is not request()'s).
RequestStep(c, c2) ==
    /\ Moves(c, c2)
    /\ c.pc /= "body" \/ c.op \in {"apiClient", "resetPassword"}

\* The invocation does not enter the refresh protocol.
NoRefresh(c) ==
    \/ c.skipAuth
    \/ ~c.retryOpt
    \/ c.path = RefreshPath
    \/ Answered(c.log) /\ FirstStatus(c.log) /= 401

\* C26: the only persistent side effect of request() is through the
\* refresh protocol. An invocation that does not enter it (its response is
\* not a 401, or skipAuth, or retry false, or the refresh path) leaves
\* every key of both lifetimes unchanged in each of its steps, whether it
\* returns or throws, and no step of request() changes the facade's
\* in-memory user.
C26_OnlyRefreshPersists ==
    /\ [][\A c2 \in BagToSet(pending') :
            Dispatched(c2) => storage' = storage /\ currentUser' = currentUser]_vars
    /\ [][\A c \in BagToSet(pending), c2 \in BagToSet(pending') \cup {settled'} :
            RequestStep(c, c2) =>
              /\ currentUser' = currentUser
              /\ (NoRefresh(c2) \/ ~Has(c2.log, "refreshAccessToken")) =>
                    \A t \in StorageType, k \in Keys : storage'[t][k] = storage[t][k]]_vars
    /\ [](\A c \in Calls : NoRefresh(c) => ~Has(c.log, "refreshAccessToken"))

\* With a session stored, a call with skipAuth was answered 401 and threw
\* its ApiError without a refresh; the session is still stored.
C26_Witness ==
    /\ settled.op = "apiClient" /\ settled.skipAuth /\ settled.retryOpt
    /\ settled.path /= RefreshPath
    /\ settled.log = <<<<"dispatch", 0>>, <<"response", 401>>>>
    /\ settled.outcome.kind = "ApiError"
    /\ getAccessToken(storage) /= None /\ getRefreshToken(storage) /= None
    /\ currentUser /= None

\* The operations of the facade that call request().
FacadeRequests == {"login", "signup", "fetchCurrentUser", "resetPassword"}

\* C27: the facade passes pipeline errors through unchanged. When the
\* request of login, signup, fetchCurrentUser or resetPassword throws an
\* ApiError, the operation throws that error, with the status of the
\* response and the message parsed from its body; and no step of a login
\* or signup that does not return changes the in-memory user or any stored
\* credential.
C27_ErrorsPassThrough ==
    /\ [][\A c \in BagToSet(pending), data \in ErrorPayloads,
             statusText \in StatusTexts :
            (ErrorBody(c, data, statusText) /\ c.op \in FacadeRequests
               /\ data.parsed /= "null") =>
              /\ settled'.op = c.op
              /\ settled'.outcome.kind = "ApiError"
              /\ settled'.outcome.status = c.status
              /\ settled'.outcome.message = parseErrorMessage(data, statusText)
              /\ c.op \in {"login", "signup"} =>
                    storage' = storage /\ currentUser' = currentUser]_vars
    /\ [][\A c2 \in BagToSet(pending') :
            (Dispatched(c2) /\ c2.op \in {"login", "signup"}) =>
              storage' = storage /\ currentUser' = currentUser]_vars
    /\ [][\A c \in BagToSet(pending), c2 \in BagToSet(pending') \cup {settled'} :
            (Moves(c, c2) /\ c.op \in {"login", "signup"}
               /\ ~(c2.pc = "done" /\ c2.outcome.kind = "returned")) =>
              storage' = storage /\ currentUser' = currentUser]_vars

\* With the session of u1 stored, a login was refused with a 401 whose body
\* has a message field only: login threw the ApiError with that status and
\* message, and the session of u1 is as it was.
C27_Witness ==
    /\ settled.op = "login"
    /\ settled.outcome.kind = "ApiError"
    /\ settled.outcome.status = 401
    /\ settled.outcome.message = <<"m">>
    /\ currentUser = "u1"
    /\ getStoredUser(storage) = "u1"
    /\ getAccessToken(storage) /= None

\* C28: every ApiError raised by the pipeline carries a non-empty message,
\* whatever the error payload (unparsable body, empty object, non-string or
\* empty error and message fields, with or without a required list) and
\* whatever the status text, an empty one included.
C28_MessageNeverEmpty ==
    \A c \in Calls :
        c.outcome.kind = "ApiError" => Len(c.outcome.message) > 0

\* In this step request() hands c2 to fetch: a new operation, or the
\* re-issue after a refresh.
Fetches(c2) ==
    /\ c2.pc = "fetch"
    /\ CopiesIn(c2, pending') > CopiesIn(c2, pending)

\* C29: a dispatched request carries the stored access token as bearer
\* credential if and only if skipAuth is false and an access token is in
\* storage when request() starts; the requests of login, signup and
\* resetPassword, and every other request with skipAuth, carry none, also
\* with a session stored.
C29_BearerIffAuthenticated ==
    /\ [][\A c2 \in BagToSet(pending') :
            Fetches(c2) =>
              LET stored == FirstPresent(storage', ACCESS_TOKEN_KEY)
              IN  /\ (c2.bearer /= None) <=> (~c2.skipAuth /\ stored /= None)
                  /\ c2.bearer /= None => c2.bearer = stored]_vars
    /\ [](\A c \in BagToSet(pending) :
            /\ c.op \in {"login", "signup", "resetPassword"} => c.skipAuth
            /\ c.skipAuth => c.bearer = None)

\* With a session stored, a login is in flight and carries no bearer
\* credential.
C29_Witness ==
    /\ getAccessToken(storage) = "a1"
    /\ currentUser /= None
    /\ \E c \in BagToSet(pending) :
          c.op = "login" /\ c.pc = "fetch" /\ c.skipAuth /\ c.bearer = None

\* The operations that return what request() returns.
PlainRequests == {"apiClient", "resetPassword"}

\* C30: success classification of a 2xx response. A 204 resolves to an
\* explicit empty result at once, with no body read or parsed and no error;
\* otherwise the body of a response that declares a JSON content type is
\* returned parsed, and the body of any other response (text/plain, or no
\* content type) is returned as its raw text, also when it looks like JSON.
C30_SuccessClassification ==
    /\ [][\A c \in BagToSet(pending), c2 \in BagToSet(pending') \cup {settled'} :
            (Moves(c, c2) /\ c.pc = "fetch" /\ c.op \in PlainRequests
               /\ Last(c2.log) = <<"response", 204>>) =>
              /\ c2.pc = "done"
              /\ c2.outcome.kind = "returned"
              /\ c2.outcome.value = None]_vars
    /\ [](\A c \in BagToSet(pending) :
            c.pc = "body" => IsOk(c.status) /\ c.status /= 204)
    /\ [][\A c \in BagToSet(pending), contentType \in ContentTypes :
            /\ PlainBody(c, contentType, "{id:1}") =>
                  /\ settled'.outcome.kind = "returned"
                  /\ settled'.outcome.value =
                       (IF contentType \in {"application/json",
                                            "application/json; charset=utf-8"}
                          THEN "u1" ELSE "{id:1}")
            /\ PlainBody(c, contentType, "{id:2}") =>
                  /\ settled'.outcome.kind = "returned"
                  /\ settled'.outcome.value =
                       (IF contentType \in {"application/json",
                                            "application/json; charset=utf-8"}
                          THEN "u2" ELSE "{id:2}")
            /\ (PlainBody(c, contentType, Malformed)
                  /\ contentType \in {"text/plain", None}) =>
                  /\ settled'.outcome.kind = "returned"
                  /\ settled'.outcome.value = Malformed]_vars

\* A page's call was answered 200 with a text/plain body that looks like
\* JSON, and got the text itself.
C30_Witness ==
    /\ settled.op = "apiClient"
    /\ settled.log = <<<<"dispatch", 0>>, <<"response", 200>>>>
    /\ settled.outcome.kind = "returned"
    /\ settled.outcome.value = "{id:1}"
\* C31: an access token written by the refresh protocol belongs to the
\* login session of the refresh token that was sent to obtain it: the
\* stored access token and the stored refresh token always come from the
\* same session, also when a logout and a new login happen while a refresh
\* is in flight.
C31_TokensOfOneSession ==
    \A t \in StorageType :
        (storage[t][ACCESS_TOKEN_KEY] /= None /\ storage[t][REFRESH_TOKEN_KEY] /= None) =>
          SessionOf(storage[t][ACCESS_TOKEN_KEY]) = SessionOf(storage[t][REFRESH_TOKEN_KEY])

\* C32: a refresh call that fails with a non-2xx status clears only the
\* credentials of the session whose refresh token it sent: when a login or
\* signup has stored another session in the meantime, the tokens and the
\* user snapshot of that session are not wiped.
C32_LateFailureSparesNewSession ==
    [][\A c \in BagToSet(pending), c2 \in BagToSet(pending') :
         (/\ Moves(c, c2) /\ c.pc = "refresh"
          /\ Last(c2.log)[1] = "refreshResponse" /\ ~IsOk(Last(c2.log)[2])
          /\ getRefreshToken(storage) /= None
          /\ SessionOf(getRefreshToken(storage)) /= SessionOf(c.sent)) =>
           storage' = storage]_vars

\* C33: whenever the refresh protocol reports success, and the request is
\* therefore retried, storage holds at that moment the access token the
\* refresh response returned, and the retry carries it as bearer
\* credential, under every interleaving (a logout, or the failure of
\* another refresh, while the refresh call was in flight).
C33_SuccessMeansWritten ==
    [][\A c \in BagToSet(pending), data \in AccessTokens :
         RefreshBody(c, data) =>
           /\ getAccessToken(storage') = data
           /\ \E c2 \in BagToSet(pending') :
                /\ c2.pc = "fetch"
                /\ c2.log = c.log \o <<<<"refreshed", 1>>, <<"dispatch", 0>>>>
                /\ c2.bearer = data]_vars

\* C34: the cached identity belongs to the session that owns the stored
\* tokens: neither the in-memory user nor the stored user snapshot is ever
\* the user of another session than that of the stored refresh token, also
\* when a fetchCurrentUser started under one session completes after a
\* logout and a login as a different user.
C34_IdentityOfStoredSession ==
    LET refreshToken == getRefreshToken(storage)
    IN  refreshToken /= None =>
          /\ currentUser /= None => SessionOf(currentUser) = SessionOf(refreshToken)
          /\ \A t \in StorageType :
               storage[t][USER_KEY] /= None =>
                 SessionOf(JSONparse(storage[t][USER_KEY])) = SessionOf(refreshToken)

\* C35: logout is final for the operations already in flight: as long as
\* no login, signup or updateCurrentUser is started after it, the in-memory
\* user stays none and storage stays empty, whatever fetchCurrentUser,
\* login or signup completes (checked where nothing is started after the
\* logout).
C35_LogoutIsFinal ==
    /\ currentUser = None
    /\ storage = EmptyStorage

\* The places where an operation has received a response and reads its
\* body.
BodyReads == {"refreshBody", "body", "errorBody"}

\* C36: the only suspension points of an operation are its network calls.
\* Reading a response body is none: from the arrival of a refresh response
\* to the resulting storage mutation, and from the arrival of a login or
\* signup response to the writes of the in-memory user, the tokens and the
\* user snapshot, no other operation runs, so the next step of the system
\* is the continuation of the operation that reads a body.
C36_OnlyNetworkCallsSuspend ==
    [][\A c \in BagToSet(pending) :
         c.pc \in BodyReads =>
           \E c2 \in BagToSet(pending') \cup {settled'} : Moves(c, c2)]_vars

\* C37: co-location. In every reachable state a lifetime that holds an
\* access token or a user snapshot holds a refresh token too; hence
\* getAccessToken() and getStoredUser() read from the lifetime that
\* getAuthStorageType() reports, and when it reports none storage is
\* completely empty.
C37_CoLocation ==
    /\ \A t \in StorageType :
         (storage[t][ACCESS_TOKEN_KEY] /= None \/ storage[t][USER_KEY] /= None) =>
           Truthy(storage[t][REFRESH_TOKEN_KEY])
    /\ getAuthStorageType(storage) = None =>
         /\ \A t \in StorageType, k \in Keys : storage[t][k] = None
         /\ getAccessToken(storage) = None
         /\ getStoredUser(storage) = None
    /\ getAuthStorageType(storage) /= None =>
         /\ getAccessToken(storage) = storage[getAuthStorageType(storage)][ACCESS_TOKEN_KEY]
         /\ readFromStorage(storage, USER_KEY) =
              storage[getAuthStorageType(storage)][USER_KEY]

\* The page has replaced the user of a remembered session: tokens and
\* snapshot sit together in the persistent lifetime, the other is empty.
C37_Witness ==
    /\ settled.op = "updateCurrentUser"
    /\ getAuthStorageType(storage) = "local"
    /\ storage["local"][ACCESS_TOKEN_KEY] = "a1"
    /\ storage["local"][REFRESH_TOKEN_KEY] = "r2"
    /\ storage["local"][USER_KEY] = "{id:2}"
    /\ currentUser = "u2"
    /\ \A k \in Keys : storage["session"][k] = None

\* C38: when no other operation interleaves (the refresh token that was
\* sent is still the stored one), the retried attempt carries as bearer
\* credential the access token the refresh response returned, read again
\* from storage, and not the token stored until then, which the initial
\* attempt carried; it is the same request (operation, path, options) with
\* retry false.
C38_RetryCarriesRefreshedToken ==
    [][\A c \in BagToSet(pending), data \in AccessTokens :
         (RefreshBody(c, data) /\ getRefreshToken(storage) = c.sent) =>
           \E c2 \in BagToSet(pending') :
             /\ Moves(c, c2)
             /\ c2.pc = "fetch"
             /\ c2.bearer = data
             /\ c2.bearer = getAccessToken(storage')
             /\ data /= getAccessToken(storage) => c2.bearer /= getAccessToken(storage)
             /\ c2.op = c.op /\ c2.path = c.path
             /\ c2.skipAuth = c.skipAuth /\ c2.retryOpt = c.retryOpt
             /\ c2.rememberMe = c.rememberMe
             /\ ~c2.retry]_vars

\* fetchCurrentUser was answered 401 under a remembered session with the
\* token a1, the refresh returned a2, and the request is out again with a2.
C38_Witness ==
    \E c \in BagToSet(pending) :
        /\ c.op = "fetchCurrentUser" /\ c.pc = "fetch" /\ c.path = "/users/me"
        /\ c.log = <<<<"dispatch", 0>>, <<"response", 401>>,
                     <<"refreshAccessToken", 0>>, <<"refreshCall", 0>>,
                     <<"refreshResponse", 200>>, <<"refreshed", 1>>,
                     <<"dispatch", 0>>>>
        /\ c.bearer = "a2"
        /\ storage["local"][ACCESS_TOKEN_KEY] = "a2"
        /\ storage["local"][REFRESH_TOKEN_KEY] = "r1"
        /\ ~c.retry /\ c.retryOpt

\* C39: when the retried attempt after a successful refresh is answered 401
\* or another non-2xx status, request() does not refresh again: the answer
\* goes to the error handling, the caller gets an ApiError with the status
\* of this second response, one refresh call was made in all, and the steps
\* that handle the second response leave the stored credentials (refresh
\* token, refreshed access token, user snapshot) as they are.
C39_SecondFailureIsFinal ==
    /\ [][\A c \in BagToSet(pending), c2 \in BagToSet(pending') \cup {settled'} :
            (Moves(c, c2) /\ Count(c.log, "dispatch") = 2
               /\ c.pc \in {"fetch", "errorBody"}
               /\ ~IsOk(c2.status) /\ c2.status /= NetworkError
               /\ c2.status /= NoResponse) =>
              /\ storage' = storage
              /\ Count(c2.log, "refreshAccessToken") = 1
              /\ Count(c2.log, "refreshCall") = 1
              /\ Count(c2.log, "dispatch") = 2
              /\ c.pc = "fetch" => c2.pc = "errorBody"
              /\ c.pc = "errorBody" =>
                   /\ c2.pc = "done"
                   /\ c2.outcome.kind = "ApiError"
                   /\ c2.outcome.status = Last(c2.log)[2]]_vars
    /\ [](\A c \in Calls :
            /\ Count(c.log, "dispatch") <= 2
            /\ Count(c.log, "refreshCall") <= 1
            /\ (Count(c.log, "dispatch") = 2 /\ c.outcome.kind = "ApiError") =>
                 /\ Last(c.log)[1] = "response"
                 /\ c.outcome.status = Last(c.log)[2])

\* A page call was refreshed and retried, and the retry was answered 401
\* too: the caller has that ApiError and the session, with the refreshed
\* token, is still stored.
C39_Witness ==
    /\ settled.op = "apiClient"
    /\ settled.log = RefreshedLog(200, 401)
    /\ settled.outcome.kind = "ApiError"
    /\ settled.outcome.status = 401
    /\ storage["session"][REFRESH_TOKEN_KEY] = "r1"
    /\ storage["session"][ACCESS_TOKEN_KEY] = "a2"
    /\ storage["session"][USER_KEY] = "{id:1}"
    /\ currentUser = "u1"

\* C40: updateAccessToken(token) replaces only the access token, in the
\* lifetime that holds the refresh token (the persistent one first): that
\* lifetime's refresh token and user snapshot and the other lifetime are
\* unchanged; with no refresh token in either lifetime it changes nothing
\* at all, so it never creates an access token in an empty store.
C40_UpdatesInPlaceOrNothing ==
    /\ [][\A token \in AccessTokens :
            UpdateAccessToken(token) =>
              /\ currentUser' = currentUser
              /\ IF ActiveLifetime(storage) = None
                   THEN \A t \in StorageType, k \in Keys : storage'[t][k] = storage[t][k]
                   ELSE /\ storage'[ActiveLifetime(storage)][ACCESS_TOKEN_KEY] = token
                        /\ \A t \in StorageType, k \in Keys :
                             (t /= ActiveLifetime(storage) \/ k /= ACCESS_TOKEN_KEY) =>
                               storage'[t][k] = storage[t][k]]_vars
    /\ [][\A token \in AccessTokens :
            (UpdateAccessToken(token) /\ storage = EmptyStorage) =>
              storage' = EmptyStorage /\ getAccessToken(storage') = None]_vars
    /\ [](settled.op = "updateAccessToken" => settled.outcome.kind = "returned")

\* updateAccessToken("a2") has returned: the session lifetime, which holds
\* the refresh token, has the new access token, and the stale access token
\* of the persistent lifetime is as it was.
C40_Witness ==
    /\ settled.op = "updateAccessToken"
    /\ storage["session"][ACCESS_TOKEN_KEY] = "a2"
    /\ storage["session"][REFRESH_TOKEN_KEY] = "r1"
    /\ storage["local"][REFRESH_TOKEN_KEY] = None
    /\ storage["local"][ACCESS_TOKEN_KEY] = "a1"

====
